---- MODULE Spec2Model ----
(***************************************************************************)
(* Chunked AI-request orchestration: the capability registry, the chunk    *)
(* splitter and the chunked execution engine of                            *)
(* src/features/analysis/services/chunking-service.ts, and the model       *)
(* availability gateway and the capability adapters of                     *)
(* src/features/analysis/services/chrome-ai-service-simple.ts.             *)
(* The jobs of the workspace (handleStartTask, executeTask, the            *)
(* JobsProvider) are modelled on top, with the agent behind a task seen    *)
(* through the progress messages of the engine.                            *)
(*                                                                         *)
(* Strings are kept run-length encoded: a string is a sequence of runs     *)
(* [c |-> character, n |-> repeat count], adjacent runs having different   *)
(* characters and every count being positive.  length, slice, trim and     *)
(* join are computed on that encoding with the meaning they have in        *)
(* JavaScript, so that inputs of the real sizes (8000, 30000, 50000        *)
(* characters) can be checked.                                             *)
(***************************************************************************)
EXTENDS Integers, Sequences, FiniteSets, TLC

VARIABLES
  content,     \* processWithChunking argument: the text
  apiKey,      \* processWithChunking argument: the capability key
  onProgress,  \* the progress callback: "absent", "returns" or "throws"
  pc,          \* position of the engine inside processWithChunking
  chunks,      \* const chunks (line 93)
  i,           \* loop index of the chunk loop (line 105); in createChunks
               \* run alone, the cursor i of its for loop (line 54)
  results,     \* const results: string[] (line 102)
  combinedResult, \* const combinedResult (line 126)
  calls,       \* history of apiFunction invocations: input and outcome
  inflight,    \* apiFunction invocations started and not yet settled
  progress,    \* messages received by the progress callback
  splits,      \* number of createChunks calls of this run
  result,      \* the promise returned by processWithChunking
  op,          \* the operation of the service that is running
  apiName,     \* the capability global the operation is about
  hasWindow,   \* typeof window !== 'undefined'
  host,        \* the model host: for each capability global, how it is exposed
               \* and what its availability() does
  activation,  \* navigator.userActivation: "active", "inactive" or "missing"
  opPc,        \* position inside the operation of the service
  availability, \* const availability: what availability() resolved to
  status,      \* the ChromeAIAvailability record of getAvailabilityStatus
  opResult,    \* the promise returned by the operation (ChromeAIResult)
  hostLog,     \* history of the calls made to the host
  loopOptions, \* createChunks: const options = API_TOKEN_LIMITS[apiKey]
  iterations,  \* createChunks: how often the body of its for loop has run
  taskId,      \* handleStartTask argument: the task to run
  hasFile,     \* handleStartTask argument: params.file is there
  taskPc,      \* position inside handleStartTask / executeTask / the agent
  jobs,        \* JobsProvider state: const [jobs, setJobs]
  agentOnProgress, \* the onProgress parameter the agent function received
  delivered    \* messages received by the callback handed to executeTask

gatewayVars ==
  <<op, apiName, hasWindow, host, activation, opPc, availability, status, opResult>>

loopVars == <<loopOptions, iterations>>

jobVars == <<taskId, hasFile, taskPc, jobs, agentOnProgress, delivered>>

vars == <<content, apiKey, onProgress, pc, chunks, i, results, combinedResult,
          calls, inflight, progress, splits, result, gatewayVars, hostLog,
          loopVars, jobVars>>

(***************************************************************************)
(* Bounds of the model.                                                    *)
(***************************************************************************)
\* splitter inputs have at most this many runs
MaxRuns == 3

\* engine inputs are cut into at most this many windows
MaxWindows == 3

\* the for loop of createChunks is followed for at most this many passes
MaxIterations == 8

(***************************************************************************)
(* Strings.                                                                *)
(***************************************************************************)
Min(a, b) == IF a < b THEN a ELSE b

Max(a, b) == IF a > b THEN a ELSE b

\* the string of n copies of the character c
Str(c, n) == IF n = 0 THEN <<>> ELSE <<[c |-> c, n |-> n]>>

EmptyString == <<>>

\* String.prototype.length
RECURSIVE length(_)
length(s) == IF s = <<>> THEN 0 ELSE Head(s).n + length(Tail(s))

\* s + t
concat(s, t) ==
  IF s = <<>> THEN t
  ELSE IF t = <<>> THEN s
  ELSE IF s[Len(s)].c = Head(t).c
       THEN SubSeq(s, 1, Len(s) - 1)
              \o <<[c |-> Head(t).c, n |-> s[Len(s)].n + Head(t).n]>>
              \o Tail(t)
       ELSE s \o t

\* s without its first k characters
RECURSIVE dropChars(_, _)
dropChars(s, k) ==
  IF k = 0 \/ s = <<>> THEN s
  ELSE IF Head(s).n <= k THEN dropChars(Tail(s), k - Head(s).n)
  ELSE <<[c |-> Head(s).c, n |-> Head(s).n - k]>> \o Tail(s)

\* the first k characters of s
RECURSIVE takeChars(_, _)
takeChars(s, k) ==
  IF k = 0 \/ s = <<>> THEN <<>>
  ELSE IF Head(s).n <= k THEN <<Head(s)>> \o takeChars(Tail(s), k - Head(s).n)
  ELSE <<[c |-> Head(s).c, n |-> k]>>

\* String.prototype.slice(from, to); a negative index counts from the end
slice(s, from, to) ==
  LET len == length(s)
      a == IF from < 0 THEN Max(len + from, 0) ELSE Min(from, len)
      b == IF to < 0 THEN Max(len + to, 0) ELSE Min(to, len)
  IN  takeChars(dropChars(s, a), Max(b - a, 0))

isWhitespace(c) == c \in {" ", "\n"}

RECURSIVE trimStart(_)
trimStart(s) ==
  IF s /= <<>> /\ isWhitespace(Head(s).c) THEN trimStart(Tail(s)) ELSE s

RECURSIVE trimEnd(_)
trimEnd(s) ==
  IF s /= <<>> /\ isWhitespace(s[Len(s)].c)
  THEN trimEnd(SubSeq(s, 1, Len(s) - 1)) ELSE s

\* String.prototype.trim
trim(s) == trimEnd(trimStart(s))

\* Array.prototype.join(sep)
RECURSIVE join(_, _)
join(arr, sep) ==
  IF arr = <<>> THEN EmptyString
  ELSE IF Len(arr) = 1 THEN arr[1]
  ELSE concat(concat(arr[1], sep), join(Tail(arr), sep))

(***************************************************************************)
(* Capability registry.                                                    *)
(***************************************************************************)
API_TOKEN_LIMITS ==
  [ summarizer    |-> [maxTokens |-> 2500, chunkSize |-> 8000,  overlapSize |-> 400],
    writer        |-> [maxTokens |-> 9000, chunkSize |-> 30000, overlapSize |-> 1000],
    languageModel |-> [maxTokens |-> 9216, chunkSize |-> 30000, overlapSize |-> 1000],
    proofreader   |-> [maxTokens |-> 9000, chunkSize |-> 30000, overlapSize |-> 1000],
    translator    |-> [maxTokens |-> 9000, chunkSize |-> 30000, overlapSize |-> 1000],
    rewriter      |-> [maxTokens |-> 9000, chunkSize |-> 30000, overlapSize |-> 1000] ]

APIKey == DOMAIN API_TOKEN_LIMITS

getOptionsWithFullOverlap(key) ==
  [API_TOKEN_LIMITS[key] EXCEPT !.overlapSize = API_TOKEN_LIMITS[key].chunkSize]

\* ChunkingService.getOptions
getOptions(key) == API_TOKEN_LIMITS[key]

\* the for loop of createChunks has not run: the profile is the one of the
\* registry
NoLoop ==
  /\ loopOptions = getOptions(apiKey)
  /\ iterations = 0

\* no task has been started
NoJobs ==
  /\ taskId = ""
  /\ hasFile = FALSE
  /\ taskPc = "idle"
  /\ jobs = <<>>
  /\ agentOnProgress = "absent"
  /\ delivered = <<>>

(***************************************************************************)
(* Chunk splitter.                                                         *)
(***************************************************************************)
needsChunkingAtLimit(text, key) ==
  length(text) >= API_TOKEN_LIMITS[key].chunkSize

\* content.length > options.chunkSize
needsChunking(text, key) ==
  LET options == API_TOKEN_LIMITS[key]
  IN  length(text) > options.chunkSize

incrementNoOverlap(key) == API_TOKEN_LIMITS[key].chunkSize

\* options.chunkSize - (options.overlapSize || 0): the advance of the cursor
increment(key) ==
  LET options == API_TOKEN_LIMITS[key]
  IN  options.chunkSize
        - (IF options.overlapSize /= 0 THEN options.overlapSize ELSE 0)

\* the window cut at cursor position at: content.slice(i, i + chunkSize)
chunkAt(text, key, at) == slice(text, at, at + API_TOKEN_LIMITS[key].chunkSize)

keepsChunkUntrimmed(chunk) == length(chunk) > 0

\* chunk.trim().length > 0: the window is kept
keepsChunk(chunk) == length(trim(chunk)) > 0

\* the for loop of createChunks from cursor position at on; every kept
\* window is recorded with the cursor position it was cut at
RECURSIVE chunkLoop(_, _, _, _)
chunkLoop(text, key, at, acc) ==
  IF at < length(text)
  THEN LET chunk == chunkAt(text, key, at)
       IN  chunkLoop(text, key, at + increment(key),
                     IF keepsChunk(chunk)
                     THEN Append(acc, [start |-> at, chunk |-> chunk])
                     ELSE acc)
  ELSE acc

createWindows(text, key) == chunkLoop(text, key, 0, <<>>)

createChunks(text, key) ==
  LET w == createWindows(text, key)
  IN  [k \in 1..Len(w) |-> w[k].chunk]

(***************************************************************************)
(* The worker (apiFunction) and the progress callback, as the engine sees  *)
(* them.  An invocation of the worker settles in one of three ways: its    *)
(* promise resolves to {success: true, data?}, resolves to                 *)
(* {success: false, error?}, or rejects with a thrown value.  data and     *)
(* error are optional: hasData = FALSE is data === undefined, error = ""   *)
(* is an absent or empty error.                                            *)
(***************************************************************************)
Resolved(success, hasData, data, error) ==
  [kind |-> "returned", success |-> success, hasData |-> hasData,
   data |-> data, error |-> error, isError |-> FALSE]

Thrown(isError, message) ==
  [kind |-> "threw", success |-> FALSE, hasData |-> FALSE,
   data |-> EmptyString, error |-> message, isError |-> isError]

Unsettled ==
  [kind |-> "pending", success |-> FALSE, hasData |-> FALSE,
   data |-> EmptyString, error |-> "", isError |-> FALSE]

\* the texts a worker may answer with: a short one, one of half a chunk
\* (two of them joined exceed the chunk size), and one longer than a chunk
Outputs(key) ==
  { Str("S", 1), Str("L", API_TOKEN_LIMITS[key].chunkSize \div 2),
    Str("X", API_TOKEN_LIMITS[key].chunkSize + 1) }

WorkerOutcomes(key) ==
  { Resolved(TRUE, TRUE, d, "") : d \in Outputs(key) \cup {EmptyString} }
    \cup { Resolved(TRUE, FALSE, EmptyString, "") }
    \cup { Resolved(FALSE, FALSE, EmptyString, e) : e \in {"worker error", ""} }
    \cup { Thrown(TRUE, "worker threw"), Thrown(FALSE, "") }

SinkKinds == {"absent", "returns", "throws"}

\* the value a throwing progress callback throws
SinkThrown == Thrown(TRUE, "sink threw")

\* onProgress?.(message), when the callback returns
emit(log, message) ==
  IF onProgress = "absent" THEN log ELSE Append(log, message)

\* onProgress?.(message) may throw
sinkMayThrow == onProgress = "throws"

Message(kind, current, total) ==
  [kind |-> kind, current |-> current, total |-> total]

(***************************************************************************)
(* The model host: the capability globals (Summarizer, Writer, ...), each  *)
(* exposing availability() and create(), and navigator.userActivation.     *)
(* How a global is exposed and what its availability() answers does not    *)
(* change while one operation of the service runs.                         *)
(***************************************************************************)
ApiNames ==
  {"Summarizer", "Writer", "Rewriter", "Translator", "LanguageModel", "Proofreader"}

\* the capabilities getAvailabilityStatus reports on, in the order it asks
GatewayApis == <<"Summarizer", "Writer", "Rewriter", "Translator", "LanguageModel">>

\* the status enum of ChromeAIAvailability
StatusEnum == {"available", "downloadable", "downloading", "unavailable", "unsupported"}

\* what availability() may resolve to: the host's documented values and a
\* string outside the enum (the value of an older host version)
HostStrings == {"available", "downloadable", "downloading", "unavailable", "readily"}

\* availability() resolves to a string or rejects
HostAnswers ==
  { [threw |-> FALSE, value |-> v] : v \in HostStrings }
    \cup { [threw |-> TRUE, value |-> ""] }

\* the global is undefined
Absent == [exposure |-> "absent", answer |-> [threw |-> TRUE, value |-> ""]]

\* the global is an object without an availability function
NoAvailability ==
  [exposure |-> "noAvailability", answer |-> [threw |-> TRUE, value |-> ""]]

\* the global is an object whose create is not a function
NoCreate(answer) == [exposure |-> "noCreate", answer |-> answer]

\* the global has availability() and create()
Present(answer) == [exposure |-> "present", answer |-> answer]

HostApis ==
  {Absent, NoAvailability}
    \cup { NoCreate(a) : a \in HostAnswers }
    \cup { Present(a) : a \in HostAnswers }

ActivationStates == {"active", "inactive", "missing"}

\* one call made to the host, and whether it went through without a fault
HostCall(call, ok) == [call |-> call, ok |-> ok]

\* the host with only the global name exposed, as api
hostWith(name, api) == [n \in ApiNames |-> IF n = name THEN api ELSE Absent]

(***************************************************************************)
(* The operations of the service: the engine called directly, the five     *)
(* adapters, the availability query and the two download triggers.         *)
(***************************************************************************)
Adapters ==
  {"summarizeText", "generateText", "proofreadText", "translateText", "rewriteText"}

Downloads == {"downloadSpecificAPI", "triggerWriterDownload"}

\* the capability global an adapter uses
apiOf(operation) ==
  CASE operation = "summarizeText" -> "Summarizer"
    [] operation = "generateText"  -> "Writer"
    [] operation = "proofreadText" -> "Proofreader"
    [] operation = "translateText" -> "Translator"
    [] operation = "rewriteText"   -> "Rewriter"

\* the registry key an adapter hands to processWithChunking
keyOf(operation) ==
  CASE operation = "summarizeText" -> "summarizer"
    [] operation = "generateText"  -> "writer"
    [] operation = "proofreadText" -> "proofreader"
    [] operation = "translateText" -> "translator"
    [] operation = "rewriteText"   -> "rewriter"

\* the worker an adapter hands to processWithChunking: create() a session,
\* then call its verb on the chunk; either may throw
AdapterWorkerBehaviours ==
  IF host[apiName].exposure /= "present"
  THEN { [outcome |-> Thrown(TRUE, "create is not a function"), events |-> <<>>] }
  ELSE { [outcome |-> Thrown(TRUE, "create failed"),
          events |-> <<HostCall("create", FALSE)>>],
         [outcome |-> Thrown(TRUE, "verb failed"),
          events |-> <<HostCall("create", TRUE), HostCall("verb", FALSE)>>] }
       \cup { [outcome |-> Resolved(TRUE, TRUE, d, ""),
               events |-> <<HostCall("create", TRUE), HostCall("verb", TRUE)>>] :
              d \in Outputs(apiKey) \cup {EmptyString} }

\* the ways an invocation of the worker may settle, with the calls to the
\* host it made
WorkerBehaviours ==
  IF op \in Adapters
  THEN AdapterWorkerBehaviours
  ELSE { [outcome |-> o, events |-> <<>>] : o \in WorkerOutcomes(apiKey) }

\* ChromeAIResult: pending, or resolved to { success, data?, error? }
NoResult ==
  [state |-> "pending", success |-> FALSE, code |-> "", message |-> ""]

\* return { success: true, data: ... }
Done(what) ==
  [state |-> "resolved", success |-> TRUE, code |-> "", message |-> what]

\* return { success: false, error: { code, message } }
Fail(code, message) ==
  [state |-> "resolved", success |-> FALSE, code |-> code, message |-> message]

\* ChromeAIAvailability before it is built
NoStatus ==
  [available |-> FALSE, summarizer |-> "", writer |-> "", rewriter |-> "",
   translator |-> "", languageModel |-> "",
   error |-> [kind |-> "none", count |-> 0]]

\* the gateway variables while the engine is called directly
NoGateway ==
  /\ apiName = ""
  /\ hasWindow = TRUE
  /\ host = [n \in ApiNames |-> Absent]
  /\ activation = "missing"
  /\ opPc = "idle"
  /\ availability = ""
  /\ status = NoStatus
  /\ opResult = NoResult
  /\ hostLog = <<>>

(***************************************************************************)
(* The texts the engine is run on, for a capability with chunk size c and  *)
(* cursor advance s: the empty text, one character, exactly c characters,  *)
(* texts cut into 2..MaxWindows windows, a blank text longer than c (no    *)
(* window kept) and a text longer than c with a blank tail (one window     *)
(* kept).                                                                  *)
(***************************************************************************)
EngineContents(key) ==
  LET c == API_TOKEN_LIMITS[key].chunkSize
      s == increment(key)
  IN  { Str("a", n) : n \in {0, 1, c} }
        \cup { Str("a", c + 1 + (k - 2) * s) : k \in 2..MaxWindows }
        \cup { Str(" ", c + 1), concat(Str("a", 1), Str(" ", c)) }

(***************************************************************************)
(* Chunked execution engine: ChunkingService.processWithChunking.          *)
(***************************************************************************)
Pending ==
  [state |-> "pending", success |-> FALSE, hasData |-> FALSE,
   data |-> EmptyString, error |-> ""]

\* return { success: true, data }
Success(hasData, data) ==
  [state |-> "resolved", success |-> TRUE, hasData |-> hasData,
   data |-> data, error |-> ""]

\* return { success: false, error }
Failure(error) ==
  [state |-> "resolved", success |-> FALSE, hasData |-> FALSE,
   data |-> EmptyString, error |-> error]

\* an exception that leaves the async function rejects its promise
Rejected(error) ==
  [state |-> "rejected", success |-> FALSE, hasData |-> FALSE,
   data |-> EmptyString, error |-> error]

\* a || b on strings
orElse(a, b) == IF a /= "" THEN a ELSE b

caughtRethrown(thrown) == Rejected(thrown.error)

\* catch (error) { return { success: false, error: ... } }
caught(thrown) ==
  Failure(IF thrown.isError THEN thrown.error ELSE "Chunking processing failed")

countsAsSuccessWithAnyData(outcome) ==
  outcome.kind = "returned" /\ outcome.success /\ outcome.hasData

\* chunkResult.success && chunkResult.data
countsAsSuccess(outcome) ==
  outcome.kind = "returned" /\ outcome.success
    /\ outcome.hasData /\ outcome.data /= EmptyString

pushResultFront(arr, data) == <<data>> \o arr

\* results.push(chunkResult.data)
pushResult(arr, data) == Append(arr, data)

allChunksFailedNever(arr) == FALSE

\* results.length === 0
allChunksFailed(arr) == Len(arr) = 0

\* the separator of results.join('\n\n')
separator == Str("\n", 2)

pcAfterDispatchNoAwait(site) ==
  CASE site = "single" -> "awaitSingle"
    [] site = "chunk"  -> "delay"
    [] site = "final"  -> "awaitFinal"

\* await apiFunction(...): the engine is suspended until the call settles
pcAfterDispatch(site) ==
  CASE site = "single" -> "awaitSingle"
    [] site = "chunk"  -> "awaitChunk"
    [] site = "final"  -> "awaitFinal"

\* apiFunction(input) is called
dispatch(site, input) ==
  /\ calls' = Append(calls, [site |-> site, input |-> input, outcome |-> Unsettled])
  /\ inflight' = inflight + 1
  /\ pc' = pcAfterDispatch(site)

\* the latest invocation settles with outcome
settle(outcome) ==
  /\ calls' = [calls EXCEPT ![Len(calls)].outcome = outcome]
  /\ inflight' = inflight - 1

\* processWithChunking returns
return(r) ==
  /\ result' = r
  /\ pc' = "done"

Init ==
  /\ apiKey \in APIKey
  /\ content \in EngineContents(apiKey)
  /\ onProgress \in SinkKinds
  /\ pc = "start"
  /\ chunks = <<>>
  /\ i = 0
  /\ results = <<>>
  /\ combinedResult = EmptyString
  /\ calls = <<>>
  /\ inflight = 0
  /\ progress = <<>>
  /\ splits = 0
  /\ result = Pending
  /\ NoLoop
  /\ op = "processWithChunking"
  /\ NoGateway
  /\ NoJobs

\* lines 81-83: the text fits, the worker is called once with it
BeginSingle ==
  /\ pc = "start"
  /\ ~needsChunking(content, apiKey)
  /\ \/ /\ progress' = emit(progress, Message("document", 0, 0))
        /\ dispatch("single", content)
        /\ UNCHANGED result
     \/ /\ sinkMayThrow
        /\ return(caught(SinkThrown))
        /\ UNCHANGED <<progress, calls, inflight>>
  /\ UNCHANGED <<content, apiKey, onProgress, chunks, i, results,
                 combinedResult, splits>>
  /\ UNCHANGED <<gatewayVars, hostLog, loopVars, jobVars>>

\* lines 83-89: the single call settles
SettleSingle ==
  /\ pc = "awaitSingle"
  /\ \E behaviour \in WorkerBehaviours :
     LET outcome == behaviour.outcome
     IN
       /\ settle(outcome)
       /\ hostLog' = hostLog \o behaviour.events
       /\ IF outcome.kind = "threw"
          THEN return(caught(outcome))
          ELSE IF outcome.success
               THEN return(Success(outcome.hasData, outcome.data))
               ELSE return(Failure(orElse(outcome.error, "API call failed")))
  /\ UNCHANGED <<content, apiKey, onProgress, chunks, i, results,
                 combinedResult, progress, splits>>
  /\ UNCHANGED <<gatewayVars, loopVars, jobVars>>

\* lines 93-105: the text is split and the loop is entered
BeginChunked ==
  /\ pc = "start"
  /\ needsChunking(content, apiKey)
  /\ chunks' = createChunks(content, apiKey)
  /\ splits' = splits + 1
  /\ \/ /\ progress' = emit(progress, Message("sections", 0, Len(chunks')))
        /\ results' = <<>>
        /\ i' = 0
        /\ pc' = "loop"
        /\ UNCHANGED result
     \/ /\ sinkMayThrow
        /\ return(caught(SinkThrown))
        /\ UNCHANGED <<progress, results, i>>
  /\ UNCHANGED <<content, apiKey, onProgress, combinedResult, calls, inflight>>
  /\ UNCHANGED <<gatewayVars, hostLog, loopVars, jobVars>>

\* lines 105-108: the next window is handed to the worker
DispatchChunk ==
  /\ pc = "loop"
  /\ i < Len(chunks)
  /\ \/ /\ progress' = emit(progress, Message("section", i + 1, Len(chunks)))
        /\ dispatch("chunk", chunks[i + 1])
        /\ UNCHANGED result
     \/ /\ sinkMayThrow
        /\ return(caught(SinkThrown))
        /\ UNCHANGED <<progress, calls, inflight>>
  /\ UNCHANGED <<content, apiKey, onProgress, chunks, i, results,
                 combinedResult, splits>>
  /\ UNCHANGED <<gatewayVars, hostLog, loopVars, jobVars>>

\* lines 108-114: the call for the window settles
SettleChunk ==
  /\ pc = "awaitChunk"
  /\ \E behaviour \in WorkerBehaviours :
     LET outcome == behaviour.outcome
     IN
       /\ settle(outcome)
       /\ hostLog' = hostLog \o behaviour.events
       /\ IF outcome.kind = "threw"
          THEN return(caught(outcome)) /\ UNCHANGED results
          ELSE /\ results' = IF countsAsSuccess(outcome)
                             THEN pushResult(results, outcome.data)
                             ELSE results
               /\ pc' = "delay"
               /\ UNCHANGED result
  /\ UNCHANGED <<content, apiKey, onProgress, chunks, i, combinedResult,
                 progress, splits>>
  /\ UNCHANGED <<gatewayVars, loopVars, jobVars>>

nextIndexSkipping(k) == k + 2

\* i++
nextIndex(k) == k + 1

\* lines 117, 105: the 100 ms pause ends, i++
DelayElapsed ==
  /\ pc = "delay"
  /\ i' = nextIndex(i)
  /\ pc' = "loop"
  /\ UNCHANGED <<content, apiKey, onProgress, chunks, results, combinedResult,
                 calls, inflight, progress, splits, result>>
  /\ UNCHANGED <<gatewayVars, hostLog, loopVars, jobVars>>

\* lines 120-122: no window succeeded
FinishAllFailed ==
  /\ pc = "loop"
  /\ i >= Len(chunks)
  /\ allChunksFailed(results)
  /\ return(Failure("All chunks failed to process"))
  /\ UNCHANGED <<content, apiKey, onProgress, chunks, i, results,
                 combinedResult, calls, inflight, progress, splits>>
  /\ UNCHANGED <<gatewayVars, hostLog, loopVars, jobVars>>

\* lines 125-141: the outputs are joined; a joined text that is still too
\* long is handed to the worker once more
Combine ==
  /\ pc = "loop"
  /\ i >= Len(chunks)
  /\ ~allChunksFailed(results)
  /\ LET combined == join(results, separator)
         afterCombining == emit(progress, Message("combining", 0, 0))
     IN  \/ /\ sinkMayThrow                    \* 'Combining results...' throws
            /\ return(caught(SinkThrown))
            /\ UNCHANGED <<combinedResult, progress, calls, inflight>>
         \/ /\ needsChunking(combined, apiKey)
            /\ combinedResult' = combined
            /\ \/ /\ progress' = emit(afterCombining, Message("finalizing", 0, 0))
                  /\ dispatch("final", combined)
                  /\ UNCHANGED result
               \/ /\ sinkMayThrow              \* 'Finalizing results...' throws
                  /\ progress' = afterCombining
                  /\ return(caught(SinkThrown))
                  /\ UNCHANGED <<calls, inflight>>
         \/ /\ ~needsChunking(combined, apiKey)
            /\ combinedResult' = combined
            /\ progress' = afterCombining
            /\ return(Success(TRUE, combined))
            /\ UNCHANGED <<calls, inflight>>
  /\ UNCHANGED <<content, apiKey, onProgress, chunks, i, results, splits>>
  /\ UNCHANGED <<gatewayVars, hostLog, loopVars, jobVars>>

\* lines 131-138: the condense call settles
SettleFinal ==
  /\ pc = "awaitFinal"
  /\ \E behaviour \in WorkerBehaviours :
     LET outcome == behaviour.outcome
     IN
       /\ settle(outcome)
       /\ hostLog' = hostLog \o behaviour.events
       /\ IF outcome.kind = "threw"
          THEN return(caught(outcome))
          ELSE IF outcome.success
               THEN return(Success(outcome.hasData, outcome.data))
               ELSE return(Success(TRUE, combinedResult))
  /\ UNCHANGED <<content, apiKey, onProgress, chunks, i, results,
                 combinedResult, progress, splits>>
  /\ UNCHANGED <<gatewayVars, loopVars, jobVars>>

Next ==
  \/ BeginSingle
  \/ SettleSingle
  \/ BeginChunked
  \/ DispatchChunk
  \/ SettleChunk
  \/ DelayElapsed
  \/ FinishAllFailed
  \/ Combine
  \/ SettleFinal

Spec == Init /\ [][Next]_vars

\* the engine under the scheduling of the event loop: a continuation that
\* can run does run, the timer of the pause fires, and a promise the worker
\* returned settles
SpecFair == Spec /\ WF_vars(Next)

(***************************************************************************)
(* The splitter on its own: createChunks applied to texts of up to MaxRuns *)
(* runs that alternate between document text and whitespace, each run as   *)
(* long as the overlap, the cursor advance, the chunk size, one character, *)
(* or the 50,000 characters of the summarizer scenario.                    *)
(***************************************************************************)
RunLens(key) ==
  { 1, API_TOKEN_LIMITS[key].overlapSize, increment(key),
    API_TOKEN_LIMITS[key].chunkSize, 50000 }

alternating(first, lens) ==
  [k \in 1..Len(lens) |->
     [c |-> IF (k % 2 = 1) = (first = "a") THEN "a" ELSE " ", n |-> lens[k]]]

SplitContents(key) ==
  { alternating(first, lens) :
      first \in {"a", " "},
      lens \in UNION { [1..k -> RunLens(key)] : k \in 0..MaxRuns } }

InitSplit ==
  /\ apiKey \in APIKey
  /\ content \in SplitContents(apiKey)
  /\ onProgress = "absent"
  /\ pc = "start"
  /\ chunks = <<>>
  /\ i = 0
  /\ results = <<>>
  /\ combinedResult = EmptyString
  /\ calls = <<>>
  /\ inflight = 0
  /\ progress = <<>>
  /\ splits = 0
  /\ result = Pending
  /\ NoLoop
  /\ op = "createChunks"
  /\ NoGateway
  /\ NoJobs

\* ChunkingService.createChunks(content, apiKey)
Split ==
  /\ pc = "start"
  /\ chunks' = createChunks(content, apiKey)
  /\ splits' = splits + 1
  /\ pc' = "split"
  /\ UNCHANGED <<content, apiKey, onProgress, i, results, combinedResult,
                 calls, inflight, progress, result>>
  /\ UNCHANGED <<gatewayVars, hostLog, loopVars, jobVars>>

NextSplit == Split

SpecSplit == InitSplit /\ [][NextSplit]_vars

(***************************************************************************)
(* Properties of the splitter.                                             *)
(***************************************************************************)
ceilDiv(a, b) == (a + b - 1) \div b

\* the windows of the text that was split, with the positions they span
Windows == createWindows(content, apiKey)

windowEnd(w) == w.start + length(w.chunk)

\* the number of characters two windows have in common
shared(w, v) == Max(windowEnd(w) - v.start, 0)

\* the position in s at which run r of s starts
RECURSIVE runStart(_, _)
runStart(s, r) == IF r = 1 THEN 0 ELSE runStart(s, r - 1) + s[r - 1].n

\* the stretches of the text that no window spans
Gaps(w, len) ==
  IF Len(w) = 0 THEN { <<0, len>> }
  ELSE { <<0, w[1].start>>, <<windowEnd(w[Len(w)]), len>> }
         \cup { <<windowEnd(w[k]), w[k + 1].start>> : k \in 1..(Len(w) - 1) }

\* no position of [from, to) lies in a gap
spanned(w, len, from, to) ==
  \A g \in Gaps(w, len) : Max(g[1], from) >= Min(g[2], to)

\* the chunks handed out are the windows, cut from the text where they start
ChunksAreWindows ==
  /\ Len(chunks) = Len(Windows)
  /\ \A k \in 1..Len(chunks) :
       /\ chunks[k] = Windows[k].chunk
       /\ chunks[k] = slice(content, Windows[k].start,
                            Windows[k].start + API_TOKEN_LIMITS[apiKey].chunkSize)

\* C6 as stated: the windows of createChunks span every character position
\* of the text, and consecutive windows share exactly overlapSize characters,
\* the last one possibly fewer.
C6_CoverageAsClaimed ==
  pc = "split" =>
    LET w == Windows
        len == length(content)
        o == API_TOKEN_LIMITS[apiKey].overlapSize
    IN  /\ ChunksAreWindows
        /\ spanned(w, len, 0, len)
        /\ \A k \in 1..(Len(w) - 1) :
             \/ shared(w[k], w[k + 1]) = o
             \/ k + 1 = Len(w) /\ shared(w[k], w[k + 1]) <= o

\* C6 amended: the windows of createChunks span every non-whitespace
\* character position of the text (whitespace-only windows are dropped);
\* consecutive windows share exactly overlapSize characters, unless the
\* second is the last window cut from the text and shares fewer, or
\* whitespace-only windows were dropped between the two, and then all the
\* text skipped between them is whitespace.
C6_Coverage ==
  pc = "split" =>
    LET w == Windows
        len == length(content)
        c == API_TOKEN_LIMITS[apiKey].chunkSize
        o == API_TOKEN_LIMITS[apiKey].overlapSize
    IN  /\ ChunksAreWindows
        /\ \A r \in 1..Len(content) :
             ~isWhitespace(content[r].c) =>
               spanned(w, len, runStart(content, r),
                       runStart(content, r) + content[r].n)
        /\ \A k \in 1..(Len(w) - 1) :
             \/ shared(w[k], w[k + 1]) = o
             \/ /\ w[k + 1].start + (c - o) >= len
                /\ shared(w[k], w[k + 1]) <= o
                /\ shared(w[k], w[k + 1]) >= 1
             \/ /\ w[k + 1].start > w[k].start + (c - o)
                /\ trim(slice(content, w[k].start + (c - o), w[k + 1].start))
                     = EmptyString

\* C6 witness: a text split into three or more windows around a dropped
\* whitespace-only window, the windows before it overlapping by overlapSize
C6_Witness ==
  /\ pc = "split"
  /\ Len(chunks) >= 3
  /\ \E k \in 1..(Len(Windows) - 1) :
       Windows[k + 1].start > Windows[k].start + increment(apiKey)
  /\ \E k \in 1..(Len(Windows) - 1) :
       shared(Windows[k], Windows[k + 1]) = API_TOKEN_LIMITS[apiKey].overlapSize

\* the number of whitespace-only windows among the cuts of the text
blankCuts(text, key) ==
  LET c == API_TOKEN_LIMITS[key].chunkSize
      o == API_TOKEN_LIMITS[key].overlapSize
      cuts == ceilDiv(length(text), c - o)
  IN  Cardinality({ k \in 0..(cuts - 1) :
        trim(slice(text, k * (c - o), k * (c - o) + c)) = EmptyString })

\* C7 as stated: createChunks returns exactly
\* ceil(len / (chunkSize - overlapSize)) windows.
C7_WindowCountAsClaimed ==
  pc = "split" =>
    Len(chunks) = ceilDiv(length(content),
                          API_TOKEN_LIMITS[apiKey].chunkSize
                            - API_TOKEN_LIMITS[apiKey].overlapSize)

\* C7 amended: createChunks returns ceil(len / (chunkSize - overlapSize))
\* windows less the whitespace-only ones among them, so exactly that many
\* when no window is whitespace-only; 50,000 characters of text give 7
\* windows with the summarizer profile.
C7_WindowCount ==
  pc = "split" =>
    LET cuts == ceilDiv(length(content),
                        API_TOKEN_LIMITS[apiKey].chunkSize
                          - API_TOKEN_LIMITS[apiKey].overlapSize)
    IN  /\ Len(chunks) = cuts - blankCuts(content, apiKey)
        /\ blankCuts(content, apiKey) = 0 => Len(chunks) = cuts
        /\ (apiKey = "summarizer" /\ content = Str("a", 50000)) => Len(chunks) = 7

\* C7 witness: the 50,000 character text is split into 7 windows for the
\* summarizer
C7_Witness ==
  /\ pc = "split"
  /\ apiKey = "summarizer"
  /\ content = Str("a", 50000)
  /\ Len(chunks) = 7
  /\ length(chunks[7]) = 50000 - 6 * 7600

(***************************************************************************)
(* Properties of the execution engine.                                     *)
(***************************************************************************)
\* the invocations of the chunk loop, and the condense invocations
chunkCalls == SelectSeq(calls, LAMBDA call : call.site = "chunk")

finalCalls == SelectSeq(calls, LAMBDA call : call.site = "final")

returnedFailure(outcome) == outcome.kind = "returned" /\ ~outcome.success

\* the outputs of the windows that succeeded, in the order of the calls
succeededOutputs ==
  LET ok == SelectSeq(chunkCalls, LAMBDA call : countsAsSuccess(call.outcome))
  IN  [k \in 1..Len(ok) |-> ok[k].outcome.data]

\* the run was chunked and the worker has answered for every window
\* without throwing
everyWindowAnswered ==
  /\ pc = "done"
  /\ length(content) > API_TOKEN_LIMITS[apiKey].chunkSize
  /\ Len(chunkCalls) = Len(chunks)
  /\ \A k \in 1..Len(chunkCalls) : chunkCalls[k].outcome.kind = "returned"

\* C1: in a chunked run over N > 1 windows whose progress callback does not
\* throw, if the worker returns a failure result for exactly one window and
\* a success with data for every other window, the run resolves to success
\* and the outputs it joined are the N-1 successful ones.
C1_PartialFailureTolerance ==
  ( /\ everyWindowAnswered
    /\ onProgress /= "throws"
    /\ Len(chunks) > 1
    /\ \E k \in 1..Len(chunkCalls) :
         /\ returnedFailure(chunkCalls[k].outcome)
         /\ \A j \in 1..Len(chunkCalls) :
              j /= k => countsAsSuccess(chunkCalls[j].outcome) )
  => /\ result.state = "resolved"
     /\ result.success
     /\ results = succeededOutputs
     /\ Len(results) = Len(chunks) - 1

\* C2: when the worker call of a window throws, the window is skipped, every
\* later window is still handed to the worker, and the run resolves to
\* success if another window succeeded.
C2_PerChunkFaultRecovery ==
  (pc = "done" /\ onProgress /= "throws") =>
    \A k \in 1..Len(chunkCalls) :
      chunkCalls[k].outcome.kind = "threw" =>
        /\ Len(chunkCalls) = Len(chunks)
        /\ (\E j \in 1..Len(chunkCalls) : countsAsSuccess(chunkCalls[j].outcome))
             => result.success

C5_OrderPreservation ==
  /\ Len(chunkCalls) <= Len(chunks)
  /\ \A k \in 1..Len(chunkCalls) : chunkCalls[k].input = chunks[k]
  /\ ( /\ everyWindowAnswered
       /\ onProgress /= "throws"
       /\ Len(chunks) >= 1
       /\ \A k \in 1..Len(chunkCalls) : countsAsSuccess(chunkCalls[k].outcome)
       /\ length(join([k \in 1..Len(chunkCalls) |-> chunkCalls[k].outcome.data],
                      Str("\n", 2)))
            <= API_TOKEN_LIMITS[apiKey].chunkSize )
     => /\ result = Success(TRUE,
                      join([k \in 1..Len(chunkCalls) |-> chunkCalls[k].outcome.data],
                           Str("\n", 2)))
        /\ finalCalls = <<>>

\* C5 witness: three windows answered with outputs that differ, joined in
\* window order into the returned data
C5_Witness ==
  /\ everyWindowAnswered
  /\ Len(chunks) = 3
  /\ \A k \in 1..3 : countsAsSuccess(chunkCalls[k].outcome)
  /\ chunkCalls[1].outcome.data /= chunkCalls[2].outcome.data
  /\ result.success
  /\ result.data = concat(chunkCalls[1].outcome.data,
                     concat(Str("\n", 2),
                       concat(chunkCalls[2].outcome.data,
                         concat(Str("\n", 2), chunkCalls[3].outcome.data))))

\* C8: in a chunked run where the worker answered for every window and at
\* least one window succeeded (progress callback not throwing), the worker
\* is called once more, on the joined text, exactly when the joined text is
\* longer than chunkSize; the run resolves to success, with the condense
\* output when that call succeeds and with the joined text otherwise.
C8_RecombinationOverflow ==
  ( /\ everyWindowAnswered
    /\ onProgress /= "throws"
    /\ succeededOutputs /= <<>> )
  => LET joined == join(succeededOutputs, Str("\n", 2))
     IN  /\ Len(finalCalls) =
              (IF length(joined) > API_TOKEN_LIMITS[apiKey].chunkSize THEN 1 ELSE 0)
         /\ \A k \in 1..Len(finalCalls) : finalCalls[k].input = joined
         /\ result.state = "resolved"
         /\ result.success
         /\ \A k \in 1..Len(finalCalls) :
              IF finalCalls[k].outcome.kind = "returned"
                   /\ finalCalls[k].outcome.success
              THEN /\ result.data = finalCalls[k].outcome.data
                   /\ result.hasData = finalCalls[k].outcome.hasData
              ELSE result.data = joined
         /\ finalCalls = <<>> => result.data = joined

\* C9: processWithChunking never rejects: whatever the worker and the
\* progress callback do (return, fail or throw), the promise is pending
\* until the function is done and is then resolved to {success, data?,
\* error?}.
C9_NeverRejects ==
  /\ result.state /= "rejected"
  /\ result.state = (IF pc = "done" THEN "resolved" ELSE "pending")
  /\ result.state = "resolved" =>
       /\ result.success \in BOOLEAN
       /\ result.success => result.error = ""
       /\ ~result.success => ~result.hasData

\* C9 witness: the worker threw in the chunk loop and the run resolved to a
\* failure carrying the thrown message
C9_Witness ==
  /\ pc = "done"
  /\ \E k \in 1..Len(chunkCalls) : chunkCalls[k].outcome = Thrown(TRUE, "worker threw")
  /\ result.state = "resolved"
  /\ ~result.success
  /\ result.error = "worker threw"

\* C10: at most one worker invocation is in flight; an invocation is
\* started only after every earlier one of the run has settled.
C10_SequentialDispatch ==
  /\ inflight <= 1
  /\ inflight = Cardinality({ k \in 1..Len(calls) : calls[k].outcome.kind = "pending" })
  /\ \A k \in 1..(Len(calls) - 1) : calls[k].outcome.kind /= "pending"

\* C10 witness: the call for the third window is in flight, the two before
\* it have settled
C10_Witness ==
  /\ pc = "awaitChunk"
  /\ inflight = 1
  /\ Len(calls) = 3
  /\ calls[3].outcome.kind = "pending"
  /\ calls[3].input = chunks[3]
  /\ calls[1].outcome.kind /= "pending" /\ calls[2].outcome.kind /= "pending"

(***************************************************************************)
(* Model availability gateway: ChromeAIService.getAvailabilityStatus.      *)
(***************************************************************************)
\* the engine variables while no processWithChunking call is running
EngineIdle ==
  /\ content = EmptyString
  /\ apiKey = "summarizer"
  /\ onProgress = "absent"
  /\ pc = "idle"
  /\ chunks = <<>>
  /\ i = 0
  /\ results = <<>>
  /\ combinedResult = EmptyString
  /\ calls = <<>>
  /\ inflight = 0
  /\ progress = <<>>
  /\ splits = 0
  /\ result = Pending
  /\ NoLoop

engineVars ==
  <<content, apiKey, onProgress, pc, chunks, i, results, combinedResult,
    calls, inflight, progress, splits, result, loopVars>>

\* the field of ChromeAIAvailability that reports on a capability global
fieldOf(name) ==
  CASE name = "Summarizer"    -> "summarizer"
    [] name = "Writer"        -> "writer"
    [] name = "Rewriter"      -> "rewriter"
    [] name = "Translator"    -> "translator"
    [] name = "LanguageModel" -> "languageModel"

\* typeof api.availability === 'function'
hasAvailability(api) == api.exposure \in {"noCreate", "present"}

\* typeof api.create === 'function'
hasCreate(api) == api.exposure \in {"noAvailability", "present"}

\* ChromeAIService.checkApiAvailability(apiName)
checkApiAvailability(name) ==
  LET api == host[name]
  IN  IF ~hasAvailability(api) THEN "unavailable"
      ELSE IF api.answer.threw THEN "unavailable"
      ELSE api.answer.value

\* the availability() calls the five checks make
availabilityCalls ==
  LET asked == SelectSeq(GatewayApis, LAMBDA n : hasAvailability(host[n]))
  IN  [k \in 1..Len(asked) |->
         HostCall("availability", ~host[asked[k]].answer.threw)]

anyAvailableButLanguageModel(st) ==
  \/ st.summarizer = "available" \/ st.writer = "available"
  \/ st.rewriter = "available" \/ st.translator = "available"

\* summarizer === 'available' || writer === 'available' || ...
anyAvailable(st) ==
  \/ st.summarizer = "available" \/ st.writer = "available"
  \/ st.rewriter = "available" \/ st.translator = "available"
  \/ st.languageModel = "available"

unavailableCountNotAvailable(st) ==
  Cardinality({ k \in 1..Len(GatewayApis) : st[fieldOf(GatewayApis[k])] /= "available" })

\* [...].filter(status => status === 'unavailable').length
unavailableCount(st) ==
  Cardinality({ k \in 1..Len(GatewayApis) : st[fieldOf(GatewayApis[k])] = "unavailable" })

\* let error: the diagnostic when no capability is available
diagnostic(st) ==
  IF anyAvailable(st) THEN [kind |-> "none", count |-> 0]
  ELSE IF unavailableCount(st) = 5 THEN [kind |-> "allUnavailable", count |-> 0]
  ELSE [kind |-> "partiallyUnavailable", count |-> unavailableCount(st)]

\* the record returned on the server side
ServerSideStatus ==
  [available |-> FALSE, summarizer |-> "unavailable", writer |-> "unavailable",
   rewriter |-> "unavailable", translator |-> "unavailable",
   languageModel |-> "unavailable",
   error |-> [kind |-> "serverSide", count |-> 0]]

\* the hosts getAvailabilityStatus is run against
GatewayHostApis ==
  {Absent, NoAvailability} \cup { Present(a) : a \in HostAnswers }

InitGateway ==
  /\ op = "getAvailabilityStatus"
  /\ apiName = ""
  /\ hasWindow \in BOOLEAN
  /\ \E g \in [{ GatewayApis[k] : k \in 1..Len(GatewayApis) } -> GatewayHostApis] :
       host = [n \in ApiNames |->
                 IF hasWindow /\ n \in DOMAIN g THEN g[n] ELSE Absent]
  /\ activation = "missing"
  /\ opPc = "entry"
  /\ availability = ""
  /\ status = NoStatus
  /\ opResult = NoResult
  /\ hostLog = <<>>
  /\ EngineIdle
  /\ NoJobs

\* lines 130-140: no window, nothing is asked
StatusOnServer ==
  /\ op = "getAvailabilityStatus"
  /\ opPc = "entry"
  /\ ~hasWindow
  /\ status' = ServerSideStatus
  /\ opPc' = "returned"
  /\ UNCHANGED <<op, apiName, hasWindow, host, activation, availability,
                 opResult, hostLog, engineVars, jobVars>>

\* lines 144-156: the five checks, all settled
CheckApis ==
  /\ op = "getAvailabilityStatus"
  /\ opPc = "entry"
  /\ hasWindow
  /\ status' = [NoStatus EXCEPT
                  !.summarizer = checkApiAvailability("Summarizer"),
                  !.writer = checkApiAvailability("Writer"),
                  !.rewriter = checkApiAvailability("Rewriter"),
                  !.translator = checkApiAvailability("Translator"),
                  !.languageModel = checkApiAvailability("LanguageModel")]
  /\ hostLog' = hostLog \o availabilityCalls
  /\ opPc' = "aggregate"
  /\ UNCHANGED <<op, apiName, hasWindow, host, activation, availability,
                 opResult, engineVars, jobVars>>

\* lines 159-180: the overall flag and the diagnostic
AggregateStatus ==
  /\ op = "getAvailabilityStatus"
  /\ opPc = "aggregate"
  /\ status' = [status EXCEPT !.available = anyAvailable(status),
                              !.error = diagnostic(status)]
  /\ opPc' = "returned"
  /\ UNCHANGED <<op, apiName, hasWindow, host, activation, availability,
                 opResult, hostLog, engineVars, jobVars>>

NextGateway ==
  \/ StatusOnServer
  \/ CheckApis
  \/ AggregateStatus

SpecGateway == InitGateway /\ [][NextGateway]_vars

(***************************************************************************)
(* Properties of the availability gateway.                                 *)
(***************************************************************************)
\* the five statuses of the record getAvailabilityStatus has returned
reported == [k \in 1..Len(GatewayApis) |-> status[fieldOf(GatewayApis[k])]]

statusReturned == op = "getAvailabilityStatus" /\ opPc = "returned"

\* C13: every per-capability status reported by getAvailabilityStatus is one
\* of 'available', 'downloadable', 'downloading', 'unavailable',
\* 'unsupported', whatever availability() resolves to or throws.
C13_AvailabilityStateClosure ==
  statusReturned =>
    \A k \in 1..Len(reported) :
      reported[k] \in {"available", "downloadable", "downloading",
                       "unavailable", "unsupported"}

\* C14: a capability the host does not expose (global absent, or without an
\* availability function) is reported 'unsupported'; 'unavailable' is
\* reported only for a capability that exists.
C14_UnsupportedVsUnavailable ==
  (statusReturned /\ hasWindow) =>
    \A k \in 1..Len(GatewayApis) :
      LET exposed == host[GatewayApis[k]].exposure \in {"noCreate", "present"}
      IN  /\ ~exposed => reported[k] = "unsupported"
          /\ reported[k] = "unavailable" => exposed

\* C15: the available flag of the returned record is true exactly when at
\* least one of the five statuses is 'available'.
C15_AggregateAvailability ==
  statusReturned =>
    (status.available <=> \E k \in 1..Len(reported) : reported[k] = "available")

\* C15 witness: only the language model is available, and the flag is set
C15_Witness ==
  /\ statusReturned
  /\ status.available
  /\ status.languageModel = "available"
  /\ \A k \in 1..4 : reported[k] /= "available"

\* C16 as stated: the diagnostic is set exactly when no capability is
\* available; it is the 'All AI models are unavailable' one exactly when all
\* five statuses are 'unavailable', and otherwise the 'partially
\* unavailable' one with the number of 'unavailable' statuses.
C16_DiagnosticAsClaimed ==
  statusReturned =>
    LET none == \A k \in 1..Len(reported) : reported[k] /= "available"
        all == \A k \in 1..Len(reported) : reported[k] = "unavailable"
        n == Cardinality({ k \in 1..Len(reported) : reported[k] = "unavailable" })
    IN  /\ (status.error.kind /= "none") <=> none
        /\ (status.error.kind = "allUnavailable") <=> all
        /\ (none /\ ~all) =>
             status.error = [kind |-> "partiallyUnavailable", count |-> n]

\* C16 amended: the same, for a call on the browser side (a window exists);
\* on the server side all five statuses are 'unavailable' and the diagnostic
\* is the 'Cannot check Chrome AI availability on server side' one.
C16_Diagnostic ==
  statusReturned =>
    LET none == \A k \in 1..Len(reported) : reported[k] /= "available"
        all == \A k \in 1..Len(reported) : reported[k] = "unavailable"
        n == Cardinality({ k \in 1..Len(reported) : reported[k] = "unavailable" })
    IN  /\ (status.error.kind /= "none") <=> none
        /\ hasWindow =>
             /\ (status.error.kind = "allUnavailable") <=> all
             /\ (none /\ ~all) =>
                  status.error = [kind |-> "partiallyUnavailable", count |-> n]
        /\ ~hasWindow => all /\ status.error.kind = "serverSide"

\* C16 witness: all five capabilities are downloadable or downloading, and
\* the diagnostic is the partial one counting no unavailable model
C16_Witness ==
  /\ statusReturned
  /\ hasWindow
  /\ \A k \in 1..Len(reported) : reported[k] \in {"downloadable", "downloading"}
  /\ status.error = [kind |-> "partiallyUnavailable", count |-> 0]

(***************************************************************************)
(* Model download triggers: ChromeAIService.downloadSpecificAPI and        *)
(* ChromeAIService.triggerWriterDownload.  One action per step between     *)
(* two awaits; every step that throws lands in the catch of the function.  *)
(***************************************************************************)
gateOfIgnoringUnavailable(av) ==
  IF av = "available" THEN "succeed" ELSE "continue"

\* if (availability === 'available') ... if (availability === 'unavailable')
gateOf(av) ==
  CASE av = "available"   -> "succeed"
    [] av = "unavailable" -> "fail"
    [] OTHER              -> "continue"

isActiveUnlessInactive(a) == a /= "inactive"

\* navigator.userActivation?.isActive
isActive(a) == a = "active"

\* the calls to create() the operation has made on the host
createCalls == SelectSeq(hostLog, LAMBDA e : e.call = "create")

InitDownload ==
  /\ op \in Downloads
  /\ apiName \in IF op = "triggerWriterDownload" THEN {"Writer"} ELSE ApiNames
  /\ hasWindow \in BOOLEAN
  /\ host \in IF hasWindow THEN { hostWith(apiName, api) : api \in HostApis }
                           ELSE { hostWith(apiName, Absent) }
  /\ activation \in IF hasWindow THEN ActivationStates ELSE {"missing"}
  /\ opPc = "entry"
  /\ availability = ""
  /\ status = NoStatus
  /\ opResult = NoResult
  /\ hostLog = <<>>
  /\ EngineIdle
  /\ NoJobs

\* typeof window === 'undefined'
DownloadOnServer ==
  /\ op \in Downloads
  /\ opPc = "entry"
  /\ ~hasWindow
  /\ opResult' = Fail("SSR_ERROR", "serverSide")
  /\ opPc' = "returned"
  /\ UNCHANGED <<op, apiName, hasWindow, host, activation, availability,
                 status, hostLog, engineVars, jobVars>>

\* downloadSpecificAPI: !api || typeof api.create !== 'function'
LookupApi ==
  /\ op = "downloadSpecificAPI"
  /\ opPc = "entry"
  /\ hasWindow
  /\ IF ~hasCreate(host[apiName])
     THEN /\ opResult' = Fail("API_UNAVAILABLE", "notAvailable")
          /\ opPc' = "returned"
     ELSE /\ opPc' = "query"
          /\ UNCHANGED opResult
  /\ UNCHANGED <<op, apiName, hasWindow, host, activation, availability,
                 status, hostLog, engineVars, jobVars>>

\* triggerWriterDownload: typeof Writer === 'undefined'
LookupWriter ==
  /\ op = "triggerWriterDownload"
  /\ opPc = "entry"
  /\ hasWindow
  /\ IF host[apiName].exposure = "absent"
     THEN /\ opResult' = Fail("API_UNAVAILABLE", "notAvailable")
          /\ opPc' = "returned"
     ELSE /\ opPc' = "query"
          /\ UNCHANGED opResult
  /\ UNCHANGED <<op, apiName, hasWindow, host, activation, availability,
                 status, hostLog, engineVars, jobVars>>

\* availability = await api.availability(), or 'unavailable' when
\* downloadSpecificAPI finds no such member; triggerWriterDownload calls it
\* unguarded
QueryAvailability ==
  /\ op \in Downloads
  /\ opPc = "query"
  /\ LET api == host[apiName]
     IN  IF hasAvailability(api)
         THEN /\ hostLog' = Append(hostLog, HostCall("availability", ~api.answer.threw))
              /\ IF api.answer.threw
                 THEN /\ opResult' = Fail("DOWNLOAD_ERROR", "availability failed")
                      /\ opPc' = "returned"
                      /\ UNCHANGED availability
                 ELSE /\ availability' = api.answer.value
                      /\ opPc' = "gate"
                      /\ UNCHANGED opResult
         ELSE IF op = "downloadSpecificAPI"
         THEN /\ availability' = "unavailable"
              /\ opPc' = "gate"
              /\ UNCHANGED <<opResult, hostLog>>
         ELSE /\ opResult' = Fail("DOWNLOAD_ERROR", "availability is not a function")
              /\ opPc' = "returned"
              /\ UNCHANGED <<availability, hostLog>>
  /\ UNCHANGED <<op, apiName, hasWindow, host, activation, status, engineVars, jobVars>>

\* the two early returns on the queried availability
Gate ==
  /\ op \in Downloads
  /\ opPc = "gate"
  /\ CASE gateOf(availability) = "succeed" ->
            /\ opResult' = Done("alreadyAvailable")
            /\ opPc' = "returned"
       [] gateOf(availability) = "fail" ->
            /\ opResult' = Fail("API_UNAVAILABLE", "notAvailableOnThisDevice")
            /\ opPc' = "returned"
       [] OTHER ->
            /\ opPc' = "activation"
            /\ UNCHANGED opResult
  /\ UNCHANGED <<op, apiName, hasWindow, host, activation, availability,
                 status, hostLog, engineVars, jobVars>>

CheckActivationNotRead ==
  /\ op \in Downloads
  /\ opPc = "activation"
  /\ opPc' = "create"
  /\ UNCHANGED <<op, apiName, hasWindow, host, activation, availability,
                 status, opResult, hostLog, engineVars, jobVars>>

\* if (!navigator.userActivation?.isActive): the activation signal is read
CheckActivation ==
  /\ op \in Downloads
  /\ opPc = "activation"
  /\ hostLog' = Append(hostLog, HostCall("userActivation", TRUE))
  /\ IF ~isActive(activation)
     THEN /\ opResult' = Fail("USER_ACTIVATION_REQUIRED", "userActivationRequired")
          /\ opPc' = "returned"
     ELSE /\ opPc' = "create"
          /\ UNCHANGED opResult
  /\ UNCHANGED <<op, apiName, hasWindow, host, activation, availability,
                 status, engineVars, jobVars>>

\* await api.create(...): the download starts, or create() rejects
CreateInstance ==
  /\ op \in Downloads
  /\ opPc = "create"
  /\ IF ~hasCreate(host[apiName])
     THEN /\ opResult' = Fail("DOWNLOAD_ERROR", "create is not a function")
          /\ UNCHANGED hostLog
     ELSE \E ok \in BOOLEAN :
            /\ hostLog' = Append(hostLog, HostCall("create", ok))
            /\ opResult' = IF ok THEN Done("downloadTriggered")
                                 ELSE Fail("DOWNLOAD_ERROR", "create failed")
  /\ opPc' = "returned"
  /\ UNCHANGED <<op, apiName, hasWindow, host, activation, availability,
                 status, engineVars, jobVars>>

NextDownload ==
  \/ DownloadOnServer
  \/ LookupApi
  \/ LookupWriter
  \/ QueryAvailability
  \/ Gate
  \/ CheckActivation
  \/ CreateInstance

SpecDownload == InitDownload /\ [][NextDownload]_vars

(***************************************************************************)
(* Properties of the download triggers.                                    *)
(***************************************************************************)
downloadReturned == op \in Downloads /\ opPc = "returned"

\* C11: a download trigger on a capability whose queried status is
\* 'unavailable' returns failure, and on one whose status is 'available'
\* returns success without calling create(), whatever the user activation.
C11_DownloadGating ==
  downloadReturned =>
    /\ availability = "unavailable" => ~opResult.success
    /\ availability = "available" => opResult.success /\ createCalls = <<>>

\* C11 witness: the capability is there with create(), the user activation
\* is active, the status is 'unavailable' and the trigger has failed
C11_Witness ==
  /\ downloadReturned
  /\ host[apiName] = Present([threw |-> FALSE, value |-> "unavailable"])
  /\ activation = "active"
  /\ availability = "unavailable"
  /\ opResult = Fail("API_UNAVAILABLE", "notAvailableOnThisDevice")

\* C12: when the capability reports 'downloadable' and user activation is
\* not active, a download trigger returns failure with code
\* USER_ACTIVATION_REQUIRED and create() is not called.
C12_ActivationRequired ==
  (downloadReturned /\ availability = "downloadable" /\ activation /= "active") =>
    /\ ~opResult.success
    /\ opResult.code = "USER_ACTIVATION_REQUIRED"
    /\ createCalls = <<>>

\* C12 witness: Writer is downloadable, navigator.userActivation is missing
\* and triggerWriterDownload has returned the activation failure
C12_Witness ==
  /\ downloadReturned
  /\ op = "triggerWriterDownload"
  /\ availability = "downloadable"
  /\ activation = "missing"
  /\ opResult.code = "USER_ACTIVATION_REQUIRED"

(***************************************************************************)
(* Model capability adapters: summarizeText, generateText, proofreadText,  *)
(* translateText and rewriteText.  Each looks its global up, queries       *)
(* availability(), and hands the text to processWithChunking with a worker *)
(* that creates a session and calls its verb; the whole body sits in one   *)
(* try/catch.                                                              *)
(***************************************************************************)
\* the code of the failure an adapter returns for a failed run or a fault
errorCodeOf(operation) ==
  CASE operation = "summarizeText" -> "SUMMARIZE_ERROR"
    [] operation = "generateText"  -> "WRITE_ERROR"
    [] operation = "proofreadText" -> "PROOFREAD_ERROR"
    [] operation = "translateText" -> "TRANSLATE_ERROR"
    [] operation = "rewriteText"   -> "REWRITE_ERROR"

adapterCaughtRethrown(operation, message) ==
  [state |-> "rejected", success |-> FALSE, code |-> "", message |-> message]

\* catch (error) { return { success: false, error: { code, message } } }
adapterCaught(operation, message) == Fail(errorCodeOf(operation), message)

\* if (availability !== 'available') return API_NOT_READY: the adapters
\* that stop there; summarizeText and generateText only log and go on
requiresAvailable(operation) ==
  operation \in {"proofreadText", "translateText", "rewriteText"}

\* result.success, or result.success && result.data
adapterSucceeded(operation, r) ==
  IF operation \in {"summarizeText", "generateText"}
  THEN r.success
  ELSE r.success /\ r.hasData /\ r.data /= EmptyString

\* the texts an adapter is called with: one for the single call, one that
\* is split in two windows
AdapterContents(key) ==
  { Str("a", 1), Str("a", API_TOKEN_LIMITS[key].chunkSize + 1) }

InitAdapter ==
  /\ op \in Adapters
  /\ apiName = apiOf(op)
  /\ hasWindow \in BOOLEAN
  /\ host \in IF hasWindow THEN { hostWith(apiName, api) : api \in HostApis }
                           ELSE { hostWith(apiName, Absent) }
  /\ activation = "missing"
  /\ opPc = "entry"
  /\ availability = ""
  /\ status = NoStatus
  /\ opResult = NoResult
  /\ hostLog = <<>>
  /\ apiKey = keyOf(op)
  /\ content \in AdapterContents(apiKey)
  /\ onProgress \in SinkKinds
  /\ pc = "idle"
  /\ chunks = <<>>
  /\ i = 0
  /\ results = <<>>
  /\ combinedResult = EmptyString
  /\ calls = <<>>
  /\ inflight = 0
  /\ progress = <<>>
  /\ splits = 0
  /\ result = Pending
  /\ NoLoop
  /\ NoJobs

\* typeof window === 'undefined'
AdapterOnServer ==
  /\ op \in Adapters
  /\ opPc = "entry"
  /\ ~hasWindow
  /\ opResult' = Fail("SSR_ERROR", "serverSide")
  /\ opPc' = "returned"
  /\ UNCHANGED <<op, apiName, hasWindow, host, activation, availability,
                 status, hostLog, engineVars, jobVars>>

\* typeof Summarizer === 'undefined' (and the like)
AdapterLookup ==
  /\ op \in Adapters
  /\ opPc = "entry"
  /\ hasWindow
  /\ IF host[apiName].exposure = "absent"
     THEN /\ opResult' = Fail("API_UNAVAILABLE", "notAvailable")
          /\ opPc' = "returned"
     ELSE /\ opPc' = "query"
          /\ UNCHANGED opResult
  /\ UNCHANGED <<op, apiName, hasWindow, host, activation, availability,
                 status, hostLog, engineVars, jobVars>>

\* const availability = await api.availability()
AdapterQuery ==
  /\ op \in Adapters
  /\ opPc = "query"
  /\ LET api == host[apiName]
     IN  IF ~hasAvailability(api)
         THEN /\ opResult' = adapterCaught(op, "availability is not a function")
              /\ opPc' = "returned"
              /\ UNCHANGED <<availability, hostLog>>
         ELSE /\ hostLog' = Append(hostLog, HostCall("availability", ~api.answer.threw))
              /\ IF api.answer.threw
                 THEN /\ opResult' = adapterCaught(op, "availability failed")
                      /\ opPc' = "returned"
                      /\ UNCHANGED availability
                 ELSE /\ availability' = api.answer.value
                      /\ opPc' = "gate"
                      /\ UNCHANGED opResult
  /\ UNCHANGED <<op, apiName, hasWindow, host, activation, status, engineVars, jobVars>>

\* the test on the queried availability; past it generateText creates a
\* first session and the others call processWithChunking
AdapterGate ==
  /\ op \in Adapters
  /\ opPc = "gate"
  /\ IF requiresAvailable(op) /\ availability /= "available"
     THEN /\ opResult' = Fail("API_NOT_READY", "notReady")
          /\ opPc' = "returned"
          /\ UNCHANGED pc
     ELSE IF op = "generateText"
     THEN /\ opPc' = "precreate"
          /\ UNCHANGED <<opResult, pc>>
     ELSE /\ opPc' = "engine"
          /\ pc' = "start"
          /\ UNCHANGED opResult
  /\ UNCHANGED <<op, apiName, hasWindow, host, activation, availability,
                 status, hostLog>>
  /\ UNCHANGED <<content, apiKey, onProgress, chunks, i, results,
                 combinedResult, calls, inflight, progress, splits, result,
                 loopVars, jobVars>>

\* generateText: await WriterAPI.create(writerOptions) ahead of the run
PreCreate ==
  /\ op = "generateText"
  /\ opPc = "precreate"
  /\ IF ~hasCreate(host[apiName])
     THEN /\ opResult' = adapterCaught(op, "create is not a function")
          /\ opPc' = "returned"
          /\ UNCHANGED <<hostLog, pc>>
     ELSE \E ok \in BOOLEAN :
            /\ hostLog' = Append(hostLog, HostCall("create", ok))
            /\ IF ok
               THEN /\ opPc' = "engine"
                    /\ pc' = "start"
                    /\ UNCHANGED opResult
               ELSE /\ opResult' = adapterCaught(op, "create failed")
                    /\ opPc' = "returned"
                    /\ UNCHANGED pc
  /\ UNCHANGED <<op, apiName, hasWindow, host, activation, availability, status>>
  /\ UNCHANGED <<content, apiKey, onProgress, chunks, i, results,
                 combinedResult, calls, inflight, progress, splits, result,
                 loopVars, jobVars>>

\* the result of processWithChunking becomes the adapter's ChromeAIResult
AdapterReturn ==
  /\ op \in Adapters
  /\ opPc = "engine"
  /\ pc = "done"
  /\ opResult' =
       IF result.state = "rejected" THEN adapterCaught(op, result.error)
       ELSE IF adapterSucceeded(op, result) THEN Done("data")
       ELSE Fail(errorCodeOf(op), orElse(result.error, "Failed"))
  /\ opPc' = "returned"
  /\ UNCHANGED <<op, apiName, hasWindow, host, activation, availability,
                 status, hostLog, engineVars, jobVars>>

NextAdapter ==
  \/ AdapterOnServer
  \/ AdapterLookup
  \/ AdapterQuery
  \/ AdapterGate
  \/ PreCreate
  \/ BeginSingle
  \/ SettleSingle
  \/ BeginChunked
  \/ DispatchChunk
  \/ SettleChunk
  \/ DelayElapsed
  \/ FinishAllFailed
  \/ Combine
  \/ SettleFinal
  \/ AdapterReturn

SpecAdapter == InitAdapter /\ [][NextAdapter]_vars

(***************************************************************************)
(* Properties of the adapters.                                             *)
(***************************************************************************)
adapterReturned == op \in Adapters /\ opPc = "returned"

\* a call to the host has raised a fault
faulted == \E k \in 1..Len(hostLog) : ~hostLog[k].ok

\* C17: an adapter that has queried a status other than 'available' still
\* creates a session and calls the operation: on a host whose global has
\* availability() and create(), with a progress callback that does not
\* throw, it does not return before create() was called.
C17_AttemptsDespiteStatus ==
  ( /\ adapterReturned
    /\ host[apiName].exposure = "present"
    /\ onProgress /= "throws"
    /\ availability \in HostStrings \ {"available"} )
  => \E k \in 1..Len(hostLog) : hostLog[k].call = "create"

\* C18: no adapter rejects to its caller, and once availability(), create()
\* or the session verb has raised a fault, on whichever chunk, the adapter
\* returns a failure whose code is its own: SUMMARIZE_ERROR, WRITE_ERROR,
\* PROOFREAD_ERROR, TRANSLATE_ERROR or REWRITE_ERROR.
C18_AdapterFaultContainment ==
  op \in Adapters =>
    /\ opResult.state /= "rejected"
    /\ (adapterReturned /\ faulted) =>
         /\ ~opResult.success
         /\ op = "summarizeText" => opResult.code = "SUMMARIZE_ERROR"
         /\ op = "generateText"  => opResult.code = "WRITE_ERROR"
         /\ op = "proofreadText" => opResult.code = "PROOFREAD_ERROR"
         /\ op = "translateText" => opResult.code = "TRANSLATE_ERROR"
         /\ op = "rewriteText"   => opResult.code = "REWRITE_ERROR"

\* C18 witness: rewriteText over two windows, the verb faults on the second
\* window and the adapter has returned REWRITE_ERROR
C18_Witness ==
  /\ adapterReturned
  /\ op = "rewriteText"
  /\ Len(chunkCalls) = 2
  /\ hostLog[Len(hostLog)] = HostCall("verb", FALSE)
  /\ opResult.code = "REWRITE_ERROR"

(***************************************************************************)
(* Progress protocol of the chunk loop.                                    *)
(***************************************************************************)
\* the 'Processing section i of N' messages the sink has received
sectionMessages == SelectSeq(progress, LAMBDA m : m.kind = "section")

\* C19: in a chunked run with a progress sink that returns, the sink gets
\* one 'Processing section i of N' message right before each invocation of
\* the chunk loop; the indices run 1, 2, ... without gap or repeat, N is the
\* same in every message, 1 <= i <= N, and at the end of the run N is the
\* number of invocations made in the chunk loop.
C19_ChunkProgressProtocol ==
  (op = "processWithChunking" /\ onProgress = "returns") =>
    /\ Len(sectionMessages) = Len(chunkCalls)
    /\ \A k \in 1..Len(sectionMessages) :
         /\ sectionMessages[k].current = k
         /\ sectionMessages[k].total = Len(chunks)
         /\ 1 <= sectionMessages[k].current
         /\ sectionMessages[k].current <= sectionMessages[k].total
    /\ (pc = "done" /\ sectionMessages /= <<>>) =>
         sectionMessages[1].total = Len(chunkCalls)

(***************************************************************************)
(* Further properties of the execution engine.                             *)
(***************************************************************************)
\* the run is one of processWithChunking on a text that needs chunking
chunkedRun ==
  length(content) > API_TOKEN_LIMITS[apiKey].chunkSize

\* C21: processWithChunking called with the empty string (progress callback
\* not throwing) completes as a success, whatever the worker does.
C21_EmptyInput ==
  ( /\ op = "processWithChunking"
    /\ pc = "done"
    /\ content = EmptyString
    /\ onProgress /= "throws" )
  => result.state = "resolved" /\ result.success

\* C25: in a run on a text longer than chunkSize, no invocation of the
\* worker, in the chunk loop or for the condense pass, gets an input longer
\* than chunkSize.
C25_WorkerInputBudget ==
  (op = "processWithChunking" /\ chunkedRun) =>
    \A k \in 1..Len(calls) :
      length(calls[k].input) <= API_TOKEN_LIMITS[apiKey].chunkSize

\* C27: in the chunk loop a window is counted (its data pushed to results)
\* exactly when the worker returned success = true with non-empty data; a
\* run in which the worker returns success with '' for every window ends in
\* the failure 'All chunks failed to process'.
C27_ChunkSuccessCriterion ==
  (op = "processWithChunking" /\ chunkedRun /\ inflight = 0) =>
    LET counted == { k \in 1..Len(chunkCalls) :
                       /\ chunkCalls[k].outcome.kind = "returned"
                       /\ chunkCalls[k].outcome.success
                       /\ chunkCalls[k].outcome.hasData
                       /\ chunkCalls[k].outcome.data /= EmptyString }
    IN  /\ Len(results) = Cardinality(counted)
        /\ \A k \in counted :
             results[Cardinality({ j \in counted : j <= k })]
               = chunkCalls[k].outcome.data
        /\ ( /\ pc = "done"
             /\ Len(chunkCalls) = Len(chunks)
             /\ Len(chunks) = 0 => onProgress /= "throws"
             /\ \A k \in 1..Len(chunkCalls) :
                  chunkCalls[k].outcome = Resolved(TRUE, TRUE, EmptyString, "") )
           => result = Failure("All chunks failed to process")

\* C27 witness: the worker returned success with '' for each of two windows
\* and the run ended in the total failure
C27_Witness ==
  /\ pc = "done"
  /\ Len(chunks) = 2
  /\ Len(chunkCalls) = 2
  /\ \A k \in 1..2 : chunkCalls[k].outcome = Resolved(TRUE, TRUE, EmptyString, "")
  /\ results = <<>>
  /\ result = Failure("All chunks failed to process")

\* every invocation of the worker made so far has returned
noWorkerThrew ==
  \A k \in 1..Len(calls) : calls[k].outcome.kind /= "threw"

\* what holds of the invocations of a chunked run at every moment
boundedWork ==
  (op = "processWithChunking" /\ chunkedRun) =>
    /\ Len(chunkCalls) <= Len(chunks)
    /\ Len(finalCalls) <= 1
    /\ Len(calls) <= Len(chunks) + 1
    /\ (pc = "done" /\ noWorkerThrew /\ onProgress /= "throws") =>
         /\ Len(chunkCalls) = Len(chunks)
         /\ Len(calls) = Len(chunkCalls) + Len(finalCalls)
         /\ \A k \in 1..Len(finalCalls) :
              finalCalls[k].outcome.success =>
                result = Success(finalCalls[k].outcome.hasData,
                                 finalCalls[k].outcome.data)

\* C26: a chunked run over N windows in which no worker call throws (and
\* the progress callback does not throw) invokes the worker exactly N times
\* in the chunk loop and at most once more for the condense pass, never
\* more than N + 1 times, and the run returns; a successful condense output
\* is returned as it is, whatever its length.
C26_BoundedWork == [](boundedWork) /\ <>(pc = "done")

\* C26 witness: two windows, a condense pass, and the condense output, which
\* is itself longer than chunkSize, returned after three invocations
C26_Witness ==
  /\ pc = "done"
  /\ Len(chunks) = 2
  /\ Len(chunkCalls) = 2
  /\ Len(finalCalls) = 1
  /\ Len(calls) = 3
  /\ result.success
  /\ result.data = Str("X", API_TOKEN_LIMITS[apiKey].chunkSize + 1)

(***************************************************************************)
(* Order of the host calls of a download trigger.                          *)
(***************************************************************************)
\* C28: downloadSpecificAPI calls create() at most once, and only after it
\* has queried a status that is neither 'available' nor 'unavailable' and
\* then read an active user-activation signal; a call that failed before
\* that point has not called create().
C28_DownloadTriggerPrecondition ==
  op = "downloadSpecificAPI" =>
    /\ Len(createCalls) <= 1
    /\ createCalls /= <<>> =>
         /\ availability \in HostStrings \ {"available", "unavailable"}
         /\ activation = "active"
         /\ Len(hostLog) = 3
         /\ hostLog[1] = HostCall("availability", TRUE)
         /\ hostLog[2] = HostCall("userActivation", TRUE)
         /\ hostLog[3].call = "create"
    /\ ( /\ opPc = "returned"
         /\ opResult.code \in {"SSR_ERROR", "API_UNAVAILABLE",
                               "USER_ACTIVATION_REQUIRED"} )
       => createCalls = <<>>
    /\ (opPc = "returned" /\ ~opResult.success /\ createCalls /= <<>>) =>
         hostLog[Len(hostLog)] = HostCall("create", FALSE)

\* C28 witness: the Translator model is downloading, the user activation is
\* active, and create() was called once, after the two observations
C28_Witness ==
  /\ op = "downloadSpecificAPI"
  /\ apiName = "Translator"
  /\ opPc = "returned"
  /\ availability = "downloading"
  /\ hostLog = <<HostCall("availability", TRUE), HostCall("userActivation", TRUE),
                 HostCall("create", TRUE)>>
  /\ opResult = Done("downloadTriggered")

(***************************************************************************)
(* Sessions of the adapters.                                               *)
(***************************************************************************)
\* the calls of a session verb the operation has made on the host
verbCalls == SelectSeq(hostLog, LAMBDA e : e.call = "verb")

\* C24: every worker invocation of an adapter creates its own session with
\* create() and uses it for one operation on one chunk: each call of the
\* verb comes right after the create() of its session, and the adapter
\* calls create() as many times as the worker is invoked, so no session is
\* left unused.
C24_NoSessionReuse ==
  (adapterReturned /\ host[apiName].exposure = "present") =>
    /\ \A k \in 1..Len(hostLog) :
         hostLog[k].call = "verb" =>
           k > 1 /\ hostLog[k - 1] = HostCall("create", TRUE)
    /\ Len(verbCalls) <= Len(calls)
    /\ Len(createCalls) = Len(calls)

(***************************************************************************)
(* The for loop of createChunks, one pass at a time, on the profile the    *)
(* function reads from the registry.  API_TOKEN_LIMITS is an exported      *)
(* object that is not frozen ('as const' only types it), so the profile    *)
(* read may also be one whose overlapSize is not below its chunkSize.      *)
(***************************************************************************)
\* options.chunkSize - (options.overlapSize || 0)
advance(opts) ==
  opts.chunkSize - (IF opts.overlapSize /= 0 THEN opts.overlapSize ELSE 0)

\* the profiles createChunks may read for a key: the registered one, one
\* whose windows overlap in full, and one whose overlap exceeds the window
Profiles(key) ==
  { getOptions(key),
    [getOptions(key) EXCEPT !.overlapSize = getOptions(key).chunkSize],
    [getOptions(key) EXCEPT !.overlapSize = getOptions(key).chunkSize + 1] }

LoopContents(key) ==
  LET c == API_TOKEN_LIMITS[key].chunkSize
  IN  { Str("a", n) : n \in {0, 1, c, c + 1, 50000} }
        \cup { Str(" ", c + 1), concat(Str("a", 1), Str(" ", c)) }

InitLoop ==
  /\ apiKey \in APIKey
  /\ content \in LoopContents(apiKey)
  /\ loopOptions \in Profiles(apiKey)
  /\ iterations = 0
  /\ onProgress = "absent"
  /\ pc = "start"
  /\ chunks = <<>>
  /\ i = 0
  /\ results = <<>>
  /\ combinedResult = EmptyString
  /\ calls = <<>>
  /\ inflight = 0
  /\ progress = <<>>
  /\ splits = 0
  /\ result = Pending
  /\ op = "createChunks"
  /\ NoGateway
  /\ NoJobs

\* lines 44-54: const chunks = [], let i = 0; nothing is tested before the
\* loop
EnterLoop ==
  /\ op = "createChunks"
  /\ pc = "start"
  /\ chunks' = <<>>
  /\ i' = 0
  /\ splits' = splits + 1
  /\ pc' = "forLoop"
  /\ UNCHANGED <<content, apiKey, onProgress, results, combinedResult, calls,
                 inflight, progress, result, gatewayVars, hostLog, loopVars, jobVars>>

\* lines 54-59: one pass of the loop body, then i += increment
LoopBody ==
  /\ pc = "forLoop"
  /\ i < length(content)
  /\ iterations < MaxIterations
  /\ LET chunk == slice(content, i, i + loopOptions.chunkSize)
     IN  chunks' = IF keepsChunk(chunk) THEN Append(chunks, chunk) ELSE chunks
  /\ i' = i + advance(loopOptions)
  /\ iterations' = iterations + 1
  /\ UNCHANGED <<content, apiKey, onProgress, pc, results, combinedResult,
                 calls, inflight, progress, splits, result, gatewayVars,
                 hostLog, loopOptions, jobVars>>

\* lines 54, 67: the loop condition fails, return chunks
LoopExit ==
  /\ pc = "forLoop"
  /\ ~(i < length(content))
  /\ pc' = "split"
  /\ UNCHANGED <<content, apiKey, onProgress, chunks, i, results,
                 combinedResult, calls, inflight, progress, splits, result,
                 gatewayVars, hostLog, loopVars, jobVars>>

NextLoop ==
  \/ EnterLoop
  \/ LoopBody
  \/ LoopExit

\* a loop that can make a pass makes it
SpecLoop == InitLoop /\ [][NextLoop]_vars /\ WF_vars(NextLoop)

C23_RegistryInvariant ==
  /\ APIKey = {"summarizer", "writer", "rewriter", "translator",
               "proofreader", "languageModel"}
  /\ \A key \in {"summarizer", "writer", "rewriter", "translator",
                 "proofreader", "languageModel"} :
       /\ 0 <= getOptions(key).overlapSize
       /\ getOptions(key).overlapSize < getOptions(key).chunkSize
       /\ advance(getOptions(key)) > 0
  /\ (op = "createChunks" /\ loopOptions = getOptions(apiKey)) =>
       /\ advance(loopOptions) > 0
       /\ i = iterations * advance(loopOptions)
       /\ pc = "split" => chunks = createChunks(content, apiKey)

\* C23 witness: the loop has run to its end on the registered profile of
\* the language model, advancing by 29000 characters a pass
C23_Witness ==
  /\ pc = "split"
  /\ apiKey = "languageModel"
  /\ loopOptions = getOptions(apiKey)
  /\ length(content) = 50000
  /\ iterations = 2
  /\ i = 58000
  /\ Len(chunks) = 2

(***************************************************************************)
(* Jobs of the workspace: WorkspaceLayout.handleStartTask starts a task    *)
(* through executeTask and keeps a job of the JobsProvider up to date; the *)
(* user may cancel the job while the task runs.  The agent behind the task *)
(* is followed through the progress messages the engine sends to the       *)
(* callback the agent gave to the adapter.                                 *)
(***************************************************************************)
\* mockTasks: the tasks of the task library
mockTasks ==
  {"elevator-pitch", "bull-bear-case", "key-debates", "meeting-prep",
   "earnings-call-analysis"}

\* the task ids handleStartTask is called with: the library's and a stray one
TaskIds == mockTasks \cup {"brief"}

\* taskAgentMap[taskId] called by executeTask with (ticker, onProgress) or
\* (ticker, file, onProgress): the onProgress the agent function is then
\* called with.  The entries call runAgent(id, ticker) and
\* runEarningsCallAnalysis(ticker, file): the callback is not passed on.
taskAgentMap(task, callback) ==
  CASE task = "elevator-pitch"         -> "absent"
    [] task = "bull-bear-case"         -> "absent"
    [] task = "key-debates"            -> "absent"
    [] task = "meeting-prep"           -> "absent"
    [] task = "earnings-call-analysis" -> "absent"

\* const newJob: Job
newJob ==
  [id |-> "job-1", status |-> "running", progress |-> 0,
   currentStep |-> "Initializing...", output |-> "none", error |-> "none"]

\* { ...job, ...updates }
merged(job, updates) ==
  [f \in DOMAIN job |-> IF f \in DOMAIN updates THEN updates[f] ELSE job[f]]

\* JobsProvider.updateJob
updateJob(all, jobId, updates) ==
  [k \in 1..Len(all) |->
     IF all[k].id = jobId THEN merged(all[k], updates) ELSE all[k]]

\* JobsProvider.cancelJob
cancelJob(all, jobId) ==
  [k \in 1..Len(all) |->
     IF all[k].id = jobId THEN [all[k] EXCEPT !.status = "cancelled"] ELSE all[k]]

\* Math.round((progress.current / progress.total) * 100)
percent(current, total) == (200 * current + total) \div (2 * total)

\* the update handleStartTask makes of a message its callback receives
progressUpdate(message) ==
  [currentStep |-> message,
   progress |-> IF message.kind = "section"
                THEN percent(message.current, message.total)
                ELSE "undefined"]

\* the messages processWithChunking may send next, after those of log: one
\* for a text that is not split, or the announcement of N sections, each
\* section in turn, the combining and the finalizing
nextMessages(task, log) ==
  IF log = <<>>
  THEN {Message("document", 0, 0)}
         \cup (IF task = "earnings-call-analysis"
               THEN { Message("sections", 0, n) : n \in 1..MaxWindows }
               ELSE {})
  ELSE LET last == log[Len(log)]
       IN  CASE last.kind = "sections" -> {Message("section", 1, last.total)}
             [] last.kind = "section" ->
                  IF last.current < last.total
                  THEN {Message("section", last.current + 1, last.total)}
                  ELSE {Message("combining", 0, 0)}
             [] last.kind = "combining" -> {Message("finalizing", 0, 0)}
             [] OTHER -> {}

InitJobs ==
  /\ op = "handleStartTask"
  /\ taskId \in TaskIds
  /\ hasFile \in BOOLEAN
  /\ taskPc = "idle"
  /\ jobs = <<>>
  /\ agentOnProgress = "absent"
  /\ delivered = <<>>
  /\ EngineIdle
  /\ NoGateway

\* handleStartTask up to the call of executeTask: the job is added
StartTask ==
  /\ op = "handleStartTask"
  /\ taskPc = "idle"
  /\ IF taskId \notin mockTasks
     THEN taskPc' = "returned" /\ UNCHANGED jobs
     ELSE /\ jobs' = Append(jobs, newJob)
          /\ taskPc' = "executeTask"
  /\ UNCHANGED <<taskId, hasFile, agentOnProgress, delivered, engineVars,
                 gatewayVars, hostLog>>

\* executeTask: the file is required for the earnings call analysis, then
\* the mapped agent function is called
ExecuteTask ==
  /\ taskPc = "executeTask"
  /\ IF taskId = "earnings-call-analysis" /\ ~hasFile
     THEN /\ taskPc' = "threw"
          /\ UNCHANGED agentOnProgress
     ELSE /\ agentOnProgress' = taskAgentMap(taskId, "present")
          /\ taskPc' = "agentStatus"
  /\ UNCHANGED <<taskId, hasFile, jobs, delivered, engineVars, gatewayVars,
                 hostLog>>

\* the agent has awaited getAvailabilityStatus: it returns a notice when no
\* model is available, and goes on to the adapters otherwise
AgentChecksStatus ==
  /\ taskPc = "agentStatus"
  /\ \E available \in BOOLEAN :
       taskPc' = IF available THEN "agentRunning" ELSE "resolved"
  /\ UNCHANGED <<taskId, hasFile, jobs, agentOnProgress, delivered, engineVars,
                 gatewayVars, hostLog>>

\* the engine sends a progress message to the callback the agent gave to
\* the adapter, which passes it to the agent's onProgress?.(...)
AgentProgress ==
  /\ taskPc = "agentRunning"
  /\ \E message \in nextMessages(taskId, progress) :
       /\ progress' = Append(progress, message)
       /\ IF agentOnProgress = "present"
          THEN /\ delivered' = Append(delivered, message)
               /\ jobs' = updateJob(jobs, newJob.id, progressUpdate(message))
          ELSE UNCHANGED <<delivered, jobs>>
  /\ UNCHANGED <<taskId, hasFile, taskPc, agentOnProgress, gatewayVars, hostLog,
                 content, apiKey, onProgress, pc, chunks, i, results,
                 combinedResult, calls, inflight, splits, result, loopVars>>

\* the agent returns its AgentOutput
AgentResolves ==
  /\ taskPc = "agentRunning"
  /\ taskPc' = "resolved"
  /\ UNCHANGED <<taskId, hasFile, jobs, agentOnProgress, delivered, engineVars,
                 gatewayVars, hostLog>>

\* handleStartTask after the await: the job is marked completed
CompleteJob ==
  /\ taskPc = "resolved"
  /\ jobs' = updateJob(jobs, newJob.id,
                       [status |-> "completed", progress |-> 100,
                        output |-> "content"])
  /\ taskPc' = "returned"
  /\ UNCHANGED <<taskId, hasFile, agentOnProgress, delivered, engineVars,
                 gatewayVars, hostLog>>

\* handleStartTask, catch: the job is marked failed
FailJob ==
  /\ taskPc = "threw"
  /\ jobs' = updateJob(jobs, newJob.id,
                       [status |-> "failed", error |-> "message"])
  /\ taskPc' = "returned"
  /\ UNCHANGED <<taskId, hasFile, agentOnProgress, delivered, engineVars,
                 gatewayVars, hostLog>>

\* the user cancels the running job, while the task awaits the host
CancelJob ==
  /\ taskPc \in {"agentStatus", "agentRunning"}
  /\ \E k \in 1..Len(jobs) :
       /\ jobs[k].status = "running"
       /\ jobs' = cancelJob(jobs, jobs[k].id)
  /\ UNCHANGED <<taskId, hasFile, taskPc, agentOnProgress, delivered,
                 engineVars, gatewayVars, hostLog>>

NextJobs ==
  \/ StartTask
  \/ ExecuteTask
  \/ AgentChecksStatus
  \/ AgentProgress
  \/ AgentResolves
  \/ CompleteJob
  \/ FailJob
  \/ CancelJob

SpecJobs == InitJobs /\ [][NextJobs]_vars

(***************************************************************************)
(* Properties of the jobs.                                                 *)
(***************************************************************************)
\* C29: once cancelJob has set a job's status to 'cancelled', no later step
\* of the task changes the status or attaches an output to the job.
C29_CancelledStaysCancelled ==
  [][ \A k \in 1..Len(jobs) :
        jobs[k].status = "cancelled" =>
          /\ Len(jobs') >= k
          /\ jobs'[k].status = "cancelled"
          /\ jobs'[k].output = jobs[k].output ]_vars

\* C30: every progress message the engine has sent during a task started
\* through executeTask with an onProgress callback has been received by
\* that callback, and the running job shows the latest of them as its
\* current step.
C30_ProgressDelivery ==
  op = "handleStartTask" =>
    /\ delivered = progress
    /\ \A k \in 1..Len(jobs) :
         (jobs[k].status = "running" /\ progress /= <<>>) =>
           jobs[k].currentStep = progress[Len(progress)]

====
